---------------------------- MODULE Spec2Model ----------------------------
(***************************************************************************)
(* Model of check_sensu_events.py: a Nagios plugin that fetches /events    *)
(* and /stashes from a Sensu API, correlates them and exits with a Nagios  *)
(* state.  One run of the script is one behaviour:                         *)
(*    main -> get_events -> format_json_and_exit -> exited                 *)
(* with the catch-all handler of __main__ taking every Exception.          *)
(*                                                                         *)
(* Strings are sequences of one-character strings, so that Python's        *)
(* substring test and re.match are computed, not assumed.                  *)
(* Not modelled: logging, the text of check['output'] and of --info (they  *)
(* are copied to stdout and never read back).                              *)
(***************************************************************************)
EXTENDS Integers, Sequences, FiniteSets, TLC

\* ---- bounds of the model ------------------------------------------------
MaxEvents == 2
MaxStashes == 2

\* ---- src/check_sensu_events.py:37-40 -------------------------------------
STATE_OK == 0
STATE_WARNING == 1
STATE_CRITICAL == 2
STATE_UNKNOWN == 3

\* ---- strings -------------------------------------------------------------
Silence == <<"s", "i", "l", "e", "n", "c", "e">>
Slash == <<"/">>

\* sep.join(parts) of Python
RECURSIVE Join(_, _)
Join(sep, parts) ==
    IF parts = <<>> THEN <<>>
    ELSE IF Len(parts) = 1 THEN parts[1]
    ELSE parts[1] \o sep \o Join(sep, Tail(parts))

\* `sub in s` of Python for two strings: sub occurs in s as a substring
Contains(sub, s) ==
    \E i \in 0..(Len(s) - Len(sub)) : SubSeq(s, i + 1, i + Len(sub)) = sub

\* ---- regular expressions (the subset: literal, '.', postfix '*', '(') ----
\* re.compile raises re.error on an unbalanced parenthesis and on a '*'
\* that has nothing to repeat.
ReValid(p) ==
    /\ \A i \in 1..Len(p) : p[i] # "(" /\ p[i] # ")"
    /\ (p # <<>> => p[1] # "*")
    /\ \A i \in 1..(Len(p) - 1) : ~(p[i] = "*" /\ p[i + 1] = "*")

AtomMatches(c, ch) == c = "." \/ c = ch

\* the pattern matches a prefix of s (re.match tries index 0 only)
RECURSIVE MatchHere(_, _)
MatchHere(p, s) ==
    IF p = <<>> THEN TRUE
    ELSE IF Len(p) >= 2 /\ p[2] = "*"
    THEN \E n \in 0..Len(s) :
            /\ \A i \in 1..n : AtomMatches(p[1], s[i])
            /\ MatchHere(SubSeq(p, 3, Len(p)), SubSeq(s, n + 1, Len(s)))
    ELSE /\ s # <<>>
         /\ AtomMatches(p[1], s[1])
         /\ MatchHere(Tail(p), Tail(s))

\* client_filter.match(name) is not None
ReMatch(p, s) == MatchHere(p, s)

\* ---- the inputs of one run -----------------------------------------------
ClientNames == { <<"a">>, <<"b", "a">> }
CheckNames == { <<"k">>, <<"k", "x">> }
\* the checks that run on the clients: k and kx on a, k on ba
Checks == { c \in ClientNames \X CheckNames : c # << <<"b", "a">>, <<"k", "x">> >> }
Statuses == { STATE_OK, STATE_WARNING, STATE_CRITICAL, STATE_UNKNOWN }

\* --filter values: the default, a prefix of one client, a pattern that
\* matches no client, and one that re.compile rejects
Filters == { <<".", "*">>, <<"b">>, <<"z">>, <<"(">> }

\* args.username / args.password: both given or both left at "" (the two
\* branches of lines 269-276 differ only in the auth argument), or only one
Credentials == { "complete", "partial" }

\* An event of GET /events.  lacks names the key the JSON object lacks, or
\* is "" for a complete event.
EventFields == { "client.name", "check", "check.name", "check.status" }
Event(c, k, st, key) ==
    [client |-> c, name |-> k, status |-> st, lacks |-> key]
Events == { Event(c[1], c[2], st, "") : c \in Checks, st \in Statuses }
MalformedEvents ==
    { Event(<<"a">>, <<"k">>, st, f) : st \in {STATE_OK, STATE_CRITICAL},
                                       f \in EventFields }

\* A stash of GET /stashes
Stash(p, has) == [path |-> p, haspath |-> has]
SilencePath(c, k) == Join(Slash, <<Silence, c, k>>)
Stashes == { Stash(SilencePath(c[1], c[2]), TRUE) : c \in Checks }

SeqsUpTo(S, n) == UNION { [1..m -> S] : m \in 0..n }

\* status codes the API may answer with; NoStatus stands for req_event = None
StatusCodes == { 200, 204, 404, 500, 503 }
NoStatus == 0

\* bool(req_event) of python-requests: Response.__nonzero__ returns self.ok,
\* which is False for every 4xx and 5xx status; bool(None) is False
Truthy(code) == code # NoStatus /\ code < 400

\* ---- state ---------------------------------------------------------------
VARIABLES
    pc,                \* "main", "format", "raised", "exited"
    filter,            \* args.filter
    credentials,       \* which of args.username, args.password are set
    reqs,              \* the URLs requests.get was called with, in order
    status_code,       \* req_event.status_code, NoStatus without a response
    failure,           \* what went wrong in get_events, or ""
    events,            \* res_event
    stashes,           \* res_stashes
    formatted,         \* format_json_and_exit has been entered
    crit_count, warn_count, unknown_count, stash_count, filter_count,
    nagios_output,     \* the headline: [level, count]
    nagios_output_ext, \* the detail lines, one <<client, check>> each
    exception,         \* the Exception that reached __main__, or ""
    exit_status        \* <<>> while running, <<code>> once sys.exit ran

vars == << pc, filter, credentials, reqs, status_code, failure, events, stashes, formatted,
           crit_count, warn_count, unknown_count, stash_count, filter_count,
           nagios_output, nagios_output_ext, exception, exit_status >>

counters == << crit_count, warn_count, unknown_count, stash_count,
               filter_count, nagios_output, nagios_output_ext >>

Headline(level, n) == [level |-> level, count |-> n]
NoHeadline == Headline("", 0)

\* ---- format_json_and_exit: one pass of `for event in events` -------------
\* The accumulator holds the function's locals; raised names the exception
\* that left the loop, after which nothing else runs.
Locals0 ==
    [crit |-> 0, warn |-> 0, unknown |-> 0, stash |-> 0, filter |-> 0,
     ext |-> <<>>, raised |-> ""]

\* `for stash in stashes` (lines 178-182): every matching stash counts
RECURSIVE StashLoop(_, _, _)
StashLoop(ev, sts, acc) ==
    IF sts = <<>> \/ acc.raised # "" THEN acc
    ELSE IF ev.lacks = "check.name"
    THEN [acc EXCEPT !.raised = "KeyError"]
    ELSE IF ~Head(sts).haspath
    THEN [acc EXCEPT !.raised = "KeyError"]
    ELSE IF Contains(SilencePath(ev.client, ev.name), Head(sts).path)
    THEN StashLoop(ev, Tail(sts),
                   [acc EXCEPT !.in_stash = TRUE, !.stash = @ + 1])
    ELSE StashLoop(ev, Tail(sts), acc)

\* lines 184-204: the three `if status == ...` blocks
Classify(ev, l) ==
    IF ev.lacks = "check.status" \/ ev.status = STATE_OK THEN l
    ELSE IF ev.lacks = "check.name"
    THEN [l EXCEPT !.raised = "KeyError"]
    ELSE LET line == <<ev.client, ev.name>> IN
         IF ev.status = STATE_CRITICAL
         THEN [l EXCEPT !.crit = @ + 1, !.ext = Append(@, line)]
         ELSE IF ev.status = STATE_WARNING
         THEN [l EXCEPT !.warn = @ + 1, !.ext = Append(@, line)]
         ELSE [l EXCEPT !.unknown = @ + 1, !.ext = Append(@, line)]

\* LoopBody with the stash loop outside the `else` of the filter test: a
\* filtered event is still looked up in the stashes
LoopBodyStashAlways(ev, sts, flt, l) ==
    IF ev.lacks = "check"
    THEN [l EXCEPT !.raised = "AttributeError"]
    ELSE IF ev.lacks = "client.name"
    THEN [l EXCEPT !.raised = "KeyError"]
    ELSE LET s == StashLoop(ev, sts,
                            [stash |-> l.stash, in_stash |-> FALSE,
                             raised |-> ""])
             f == IF ReMatch(flt, ev.client) THEN 0 ELSE 1
         IN IF s.raised # "" THEN [l EXCEPT !.raised = s.raised]
            ELSE IF s.in_stash \/ f = 1
            THEN [l EXCEPT !.stash = s.stash, !.filter = @ + f]
            ELSE Classify(ev, l)

\* lines 163-204: the body of the loop for one event
LoopBody(ev, sts, flt, l) ==
    IF ev.lacks = "check"
    THEN [l EXCEPT !.raised = "AttributeError"]
    ELSE IF ev.lacks = "client.name"
    THEN [l EXCEPT !.raised = "KeyError"]
    ELSE IF ~ReMatch(flt, ev.client)
    THEN [l EXCEPT !.filter = @ + 1]
    ELSE LET s == StashLoop(ev, sts,
                            [stash |-> l.stash, in_stash |-> FALSE,
                             raised |-> ""])
         IN IF s.raised # "" THEN [l EXCEPT !.raised = s.raised]
            ELSE IF s.in_stash THEN [l EXCEPT !.stash = s.stash]
            ELSE Classify(ev, l)

RECURSIVE EventLoop(_, _, _, _)
EventLoop(evs, sts, flt, l) ==
    IF evs = <<>> \/ l.raised # "" THEN l
    ELSE EventLoop(Tail(evs), sts, flt, LoopBody(Head(evs), sts, flt, l))

\* lines 148, 156-158 and 212-231: the headline and the exit code
FirstResult(evs) ==
    IF evs = <<>> THEN [out |-> Headline("OK", 0), code |-> STATE_OK]
    ELSE [out |-> NoHeadline, code |-> STATE_UNKNOWN]

AfterWarning(l, r) ==
    IF l.warn # 0
    THEN [out |-> Headline("WARNING", l.warn), code |-> STATE_WARNING]
    ELSE r

AfterCritical(l, r) ==
    IF l.crit # 0
    THEN [out |-> Headline("CRITICAL", l.crit), code |-> STATE_CRITICAL]
    ELSE r

AfterUnknown(l, r) ==
    IF l.unknown # 0
    THEN [out |-> Headline("UNKNOWN", l.unknown), code |-> STATE_UNKNOWN]
    ELSE r

AfterStash(l, n, r) ==
    IF (l.stash # 0 \/ l.filter # 0) /\ (l.stash = n \/ l.filter = n)
    THEN [out |-> Headline("OK", 0), code |-> STATE_OK]
    ELSE r

Resolve(evs, l) ==
    AfterStash(l, Len(evs),
        AfterUnknown(l, AfterCritical(l, AfterWarning(l, FirstResult(evs)))))

\* ---- the run ---------------------------------------------------------------
Init ==
    /\ pc = "main"
    /\ filter \in Filters
    /\ credentials \in Credentials
    /\ reqs = <<>>
    /\ status_code = NoStatus
    /\ failure = ""
    /\ events = <<>>
    /\ stashes = <<>>
    /\ formatted = FALSE
    /\ crit_count = 0
    /\ warn_count = 0
    /\ unknown_count = 0
    /\ stash_count = 0
    /\ filter_count = 0
    /\ nagios_output = NoHeadline
    /\ nagios_output_ext = <<>>
    /\ exception = ""
    /\ exit_status = <<>>

\* sys.exit(code) after printing a headline of the given level
Exit(level, code) ==
    /\ pc' = "exited"
    /\ nagios_output' = Headline(level, 0)
    /\ exit_status' = <<code>>

\* lines 277-280 then 293: no request is made, req_event is None and
\* req_event.__dict__ raises AttributeError
GetEventsPartialCredentials ==
    /\ pc = "main"
    /\ credentials = "partial"
    /\ pc' = "raised"
    /\ exception' = "AttributeError"
    /\ UNCHANGED << filter, credentials, reqs, status_code, failure, events,
                    stashes, formatted, counters, exit_status >>

\* lines 281-286: requests.get raises on the first or on the second call
GetEventsTransportError ==
    /\ pc = "main"
    /\ credentials = "complete"
    /\ \E err \in {"ConnectionError", "Timeout"} :
       \E sent \in { <<"events">>, <<"events", "stashes">> } :
          /\ failure' = err
          /\ reqs' = sent
    /\ Exit("CRITICAL", STATE_CRITICAL)
    /\ UNCHANGED << filter, credentials, status_code, events, stashes,
                    formatted, crit_count, warn_count, unknown_count,
                    stash_count, filter_count, nagios_output_ext, exception >>

\* lines 296-317 for a response that does not lead to format_json_and_exit.
\* bool(req_event) is tested first, so the branches for 500 and for the
\* other codes are only reached by a 2xx/3xx code other than 200.
HandleFailure(code, decodes) ==
    IF ~Truthy(code) THEN [level |-> "", code |-> STATE_UNKNOWN]
    ELSE IF code = 200 /\ ~decodes
    THEN [level |-> "UNKNOWN", code |-> STATE_UNKNOWN]
    ELSE [level |-> "CRITICAL", code |-> STATE_CRITICAL]

GetEventsBadResponse ==
    /\ pc = "main"
    /\ credentials = "complete"
    /\ \E code \in StatusCodes, decodes \in BOOLEAN :
          /\ ~(code = 200 /\ decodes)
          /\ status_code' = code
          /\ failure' = IF code = 200 THEN "BadJSON" ELSE "BadStatus"
          /\ LET r == HandleFailure(code, decodes) IN Exit(r.level, r.code)
    /\ reqs' = <<"events", "stashes">>
    /\ UNCHANGED << filter, credentials, events, stashes, formatted,
                    crit_count, warn_count, unknown_count, stash_count,
                    filter_count, nagios_output_ext, exception >>

\* lines 300-310: both bodies decode, format_json_and_exit is called
GetEventsCall(EventDomain, StashDomain) ==
    /\ pc = "main"
    /\ credentials = "complete"
    /\ reqs' = <<"events", "stashes">>
    /\ status_code' = 200
    /\ events' \in SeqsUpTo(EventDomain, MaxEvents)
    /\ stashes' \in SeqsUpTo(StashDomain, MaxStashes)
    /\ formatted' = TRUE
    /\ pc' = "format"
    /\ UNCHANGED << filter, credentials, failure, counters, exception,
                    exit_status >>

\* lines 145-160: re.compile(filter) raises re.error
FormatCompileError ==
    /\ pc = "format"
    /\ ~ReValid(filter)
    /\ pc' = "raised"
    /\ exception' = "re.error"
    /\ UNCHANGED << filter, credentials, reqs, status_code, failure, events,
                    stashes, formatted, counters, exit_status >>

\* lines 162-204: the loop is left by an exception
FormatLoopError ==
    /\ pc = "format"
    /\ ReValid(filter)
    /\ LET l == EventLoop(events, stashes, filter, Locals0) IN
          /\ l.raised # ""
          /\ exception' = l.raised
    /\ pc' = "raised"
    /\ UNCHANGED << filter, credentials, reqs, status_code, failure, events,
                    stashes, formatted, counters, exit_status >>

\* lines 145-241: the function runs to its sys.exit
FormatJsonAndExit ==
    /\ pc = "format"
    /\ ReValid(filter)
    /\ LET l == EventLoop(events, stashes, filter, Locals0)
           r == Resolve(events, l)
       IN /\ l.raised = ""
          /\ crit_count' = l.crit
          /\ warn_count' = l.warn
          /\ unknown_count' = l.unknown
          /\ stash_count' = l.stash
          /\ filter_count' = l.filter
          /\ nagios_output_ext' = l.ext
          /\ nagios_output' = r.out
          /\ exit_status' = <<r.code>>
    /\ pc' = "exited"
    /\ UNCHANGED << filter, credentials, reqs, status_code, failure, events,
                    stashes, formatted, exception >>

\* lines 327-329: `except Exception` of __main__
MainExcept ==
    /\ pc = "raised"
    /\ Exit("CRITICAL", STATE_CRITICAL)
    /\ UNCHANGED << filter, credentials, reqs, status_code, failure, events,
                    stashes, formatted, crit_count, warn_count, unknown_count,
                    stash_count, filter_count, nagios_output_ext, exception >>

\* the API answers with well-formed events and stashes
Next ==
    \/ GetEventsPartialCredentials
    \/ GetEventsTransportError
    \/ GetEventsBadResponse
    \/ GetEventsCall(Events, Stashes)
    \/ FormatCompileError
    \/ FormatJsonAndExit
    \/ MainExcept

Spec == Init /\ [][Next]_vars

\* the API may also answer with records that lack a key
EventsOrMalformed ==
    { e : e \in { Event(<<"a">>, <<"k">>, st, "") : st \in Statuses }
                   \cup MalformedEvents }
StashesOrMalformed ==
    { Stash(SilencePath(<<"a">>, <<"k">>), TRUE), Stash(<<>>, FALSE) }

NextMalformed ==
    \/ GetEventsPartialCredentials
    \/ GetEventsTransportError
    \/ GetEventsBadResponse
    \/ GetEventsCall(EventsOrMalformed, StashesOrMalformed)
    \/ FormatCompileError
    \/ FormatLoopError
    \/ FormatJsonAndExit
    \/ MainExcept

SpecMalformed == Init /\ [][NextMalformed]_vars

\* ---- what the claims speak of --------------------------------------------
Range(s) == { s[i] : i \in DOMAIN s }

\* the segments of s between the occurrences of the character sep
RECURSIVE Split(_, _)
Split(s, sep) ==
    IF \A i \in 1..Len(s) : s[i] # sep THEN <<s>>
    ELSE LET i == CHOOSE j \in 1..Len(s) :
                      s[j] = sep /\ \A m \in 1..(j - 1) : s[m] # sep
         IN <<SubSeq(s, 1, i - 1)>> \o Split(SubSeq(s, i + 1, Len(s)), sep)

\* the path has the three consecutive slash-delimited segments silence, c, k
ExactSegment(c, k, path) ==
    LET seg == Split(path, "/") IN
    \E j \in 1..(Len(seg) - 2) :
        seg[j] = Silence /\ seg[j + 1] = c /\ seg[j + 2] = k

SilenceApplies(e) ==
    \E s \in Range(stashes) : s.haspath /\ ExactSegment(e.client, e.name, s.path)

InScope(e) == ReMatch(filter, e.client)

\* the in-scope, non-silenced events of a given status
Ongoing(st) ==
    { i \in DOMAIN events :
        InScope(events[i]) /\ ~SilenceApplies(events[i]) /\ events[i].status = st }

\* format_json_and_exit ran to its sys.exit
Completed == pc = "exited" /\ formatted /\ exception = ""

\* the events the pass put in no counted bucket: in scope, in no stash, and
\* of a status that none of the three `if status ==` blocks takes
ClassifiedOk ==
    { i \in DOMAIN events :
        LoopBody(events[i], stashes, filter, Locals0) = Locals0 }

Malformed ==
    \/ \E i \in DOMAIN events : events[i].lacks # ""
    \/ \E i \in DOMAIN stashes : ~stashes[i].haspath

\* ---- the claims ------------------------------------------------------------

\* C1: an in-scope UNKNOWN event that no silence applies to makes the exit
\* code UNKNOWN, whatever the other events and silences are.
C1_UnknownWins ==
    (Completed /\ Ongoing(STATE_UNKNOWN) # {})
        => exit_status = <<STATE_UNKNOWN>>

\* C2: without an ongoing UNKNOWN event, an ongoing CRITICAL event makes the
\* exit code CRITICAL and the headline counts the ongoing CRITICAL events.
C2_CriticalOverWarning ==
    (Completed /\ Ongoing(STATE_UNKNOWN) = {} /\ Ongoing(STATE_CRITICAL) # {})
        => /\ exit_status = <<STATE_CRITICAL>>
           /\ nagios_output =
                  Headline("CRITICAL", Cardinality(Ongoing(STATE_CRITICAL)))

\* C3: a non-empty list of OK events, all in scope and none silenced, exits
\* OK with an OK headline and no detail line.
C3_AllOkExitsOk ==
    (/\ Completed
     /\ events # <<>>
     /\ \A i \in DOMAIN events :
           /\ events[i].status = STATE_OK
           /\ InScope(events[i])
           /\ ~SilenceApplies(events[i]))
        => /\ exit_status = <<STATE_OK>>
           /\ nagios_output.level = "OK"
           /\ nagios_output_ext = <<>>

\* C4: the events classified OK, WARNING, CRITICAL and UNKNOWN plus the
\* filtered and the stashed ones are len(events); the stash counter moves at
\* most once per event.
C4_BucketsPartition ==
    Completed =>
        /\ Cardinality(ClassifiedOk) + warn_count + crit_count + unknown_count
               + filter_count + stash_count = Len(events)
        /\ stash_count <= Len(events)

\* C5: an event is treated as silenced exactly when a silence path has the
\* segment silence/<client>/<check>: a non-OK in-scope event has its detail
\* line printed if and only if no such path exists.
C5_ExactSegmentSilences ==
    Completed =>
        \A i \in DOMAIN events :
            (InScope(events[i]) /\ events[i].status # STATE_OK)
                => (<<events[i].client, events[i].name>> \in Range(nagios_output_ext)
                        <=> ~SilenceApplies(events[i]))

\* C6: when every event of a non-empty list is filtered out or silenced, in
\* any mix, the exit code is OK and no detail line is printed.
C6_AllSilencedOrFiltered ==
    (/\ Completed
     /\ events # <<>>
     /\ \A i \in DOMAIN events :
           ~InScope(events[i]) \/ SilenceApplies(events[i]))
        => /\ exit_status = <<STATE_OK>>
           /\ nagios_output_ext = <<>>

\* C7: with an invalid filter pattern the run ends with exit code UNKNOWN and
\* no HTTP request has been issued.  Stated for the runs in which nothing
\* else fails (complete credentials, no transport failure).
C7_InvalidFilterAtStartup ==
    (pc = "exited" /\ ~ReValid(filter) /\ credentials = "complete"
        /\ failure = "")
        => /\ exit_status = <<STATE_UNKNOWN>>
           /\ reqs = <<>>

\* C8: a record that lacks a required key does not abort the check: no
\* exception leaves format_json_and_exit.
C8_MalformedRecordSkipped ==
    (formatted /\ ReValid(filter) /\ Malformed) => exception = ""

\* C9: a transport failure ends the run before format_json_and_exit, with
\* CRITICAL for a connection error, a timeout or a 5xx status and UNKNOWN for
\* an undecodable body, and no URL is requested twice.
C9_TransportFailureSeverity ==
    (pc = "exited" /\ failure # "")
        => /\ ~formatted
           /\ failure \in {"ConnectionError", "Timeout"}
                 => exit_status = <<STATE_CRITICAL>>
           /\ (failure = "BadStatus" /\ status_code >= 500)
                 => exit_status = <<STATE_CRITICAL>>
           /\ failure = "BadJSON" => exit_status = <<STATE_UNKNOWN>>
           /\ Len(reqs) = Cardinality(Range(reqs))

\* C10: when the filter matches no event's client name, every event is
\* counted as filtered, no stash is counted, no detail line is printed and
\* the exit code is OK.
C10_NothingInScope ==
    (Completed /\ \A i \in DOMAIN events : ~ReMatch(filter, events[i].client))
        => /\ filter_count = Len(events)
           /\ stash_count = 0
           /\ nagios_output_ext = <<>>
           /\ exit_status = <<STATE_OK>>

\* C10's case: several events, one of them not OK and one of them named by a
\* silence, all filtered out
C10_Witness ==
    /\ Completed
    /\ Len(events) >= 2
    /\ \A i \in DOMAIN events : ~ReMatch(filter, events[i].client)
    /\ \E i \in DOMAIN events : events[i].status = STATE_CRITICAL
    /\ \E i \in DOMAIN events : SilenceApplies(events[i])
    /\ filter_count = Len(events)
    /\ exit_status = <<STATE_OK>>

=============================================================================
